---- MODULE Spec2Model ----
(***************************************************************************)
(* A model of python-config-rs: the PythonConfig handle (src/src/lib.rs),  *)
(* the process invoker SysCommand (src/src/cmdr.rs), the script macros     *)
(* (src/src/script.rs) and the python3-config binary                       *)
(* (src/src/bin/python3-config.rs).                                        *)
(*                                                                         *)
(* Text is a TLA+ string (a sequence of characters); the library's string  *)
(* operations (split_whitespace, split, lines, join) and the Python        *)
(* statements of the generated scripts are computed character by           *)
(* character.                                                              *)
(***************************************************************************)
EXTENDS Integers, Sequences, FiniteSets, TLC

VARIABLES
    host,       \* target_os the crate was compiled for
    interp,     \* the installed interpreter the handle's program resolves to
    handle,     \* the PythonConfig value held by the library's caller
    last,       \* the most recent library call: operation, fault, result, spawns
    spawned,    \* number of interpreter processes spawned so far
    cli         \* one run of the python3-config binary

vars == <<host, interp, handle, last, spawned, cli>>

(***************************************************************************)
(* Bounds of the model                                                     *)
(***************************************************************************)
MaxSpawn == 2
MaxArgs == 3
MaxLines == 3

(***************************************************************************)
(* Text                                                                    *)
(***************************************************************************)
Ch(s, i) == SubSeq(s, i, i)

Whitespace == {" ", "\n", "\t", "\r"}

\* the positions of the characters of s that are in seps
SepPositions(s, seps) == {i \in 1..Len(s) : Ch(s, i) \in seps}

\* the k-th smallest of the positions P
Nth(P, k) == CHOOSE p \in P : Cardinality({q \in P : q < p}) = k - 1

\* the k-th field of s, whose separators are at the positions P
Field(s, P, k) ==
    SubSeq(s,
           IF k = 1 THEN 1 ELSE Nth(P, k - 1) + 1,
           IF k = Cardinality(P) + 1 THEN Len(s) ELSE Nth(P, k) - 1)

FieldsAt(s, P) == [k \in 1..(Cardinality(P) + 1) |-> Field(s, P, k)]

\* The fields of s between separator characters, empty fields kept.
Fields(s, seps) == FieldsAt(s, SepPositions(s, seps))

\* the index of the first character of s that is in seps; 0 when none is
First(P) == IF P = {} THEN 0 ELSE Nth(P, 1)

SepAt(s, seps) == First(SepPositions(s, seps))

NonEmpty(f) == f # ""

\* str::split_whitespace (Rust) and str.split() (Python)
split_whitespace(s) == SelectSeq(Fields(s, Whitespace), NonEmpty)

\* str::split(" ") (Rust)
split(s, sep) == Fields(s, {sep})

StripCr(l) ==
    IF Len(l) > 0 /\ Ch(l, Len(l)) = "\r" THEN SubSeq(l, 1, Len(l) - 1) ELSE l

DropLastEmpty(f) == IF f[Len(f)] = "" THEN SubSeq(f, 1, Len(f) - 1) ELSE f

StripAll(f) == [i \in 1..Len(f) |-> StripCr(f[i])]

\* str::lines (Rust): a final empty field is no line; a trailing \r is dropped
lines(s) == StripAll(DropLastEmpty(Fields(s, {"\n"})))

\* [&str]::join (Rust) and str.join (Python)
RECURSIVE join(_, _)
join(list, sep) ==
    IF list = <<>> THEN ""
    ELSE IF Len(list) = 1 THEN list[1]
    ELSE list[1] \o sep \o join(Tail(list), sep)

\* &s[n..] (Rust)
DropPrefix(s, n) == SubSeq(s, n + 1, Len(s))

\* PathBuf::from: a path owning the text it was made from
PathBuf(s) == [path |-> s]

(***************************************************************************)
(* The scripts: src/src/script.rs and build_script                         *)
(***************************************************************************)
\* tab!: the line with a prefixing tab
tab(e) == "\t" \o e

\* a target_line that keeps the line on every target_os
target_line_any(target, line) == line

\* target_line!: the line on a matching target_os, the empty line otherwise
target_line(target, line) == IF host = target THEN line ELSE ""

linux_line(line) == target_line("linux", line)

macos_line(line) == target_line("macos", line)

IsStatement(line) == line # ""

\* a build_script that leaves the empty lines out
build_script_no_blank(ls) ==
    "from __future__ import print_function\n"
        \o "import sysconfig\n"
        \o "pyver = sysconfig.get_config_var('VERSION')\n"
        \o "getvar = sysconfig.get_config_var\n"
        \o join(SelectSeq(ls, IsStatement), "\n")

\* build_script: the prelude, then the caller's lines joined by newline
build_script(ls) ==
    "from __future__ import print_function\n"
        \o "import sysconfig\n"
        \o "pyver = sysconfig.get_config_var('VERSION')\n"
        \o "getvar = sysconfig.get_config_var\n"
        \o join(ls, "\n")

(***************************************************************************)
(* The interpreter: what the Python statements of the scripts do.  A       *)
(* Python value is a string, an integer or None.                           *)
(***************************************************************************)
PyStr(s) == [t |-> "str", v |-> s]

PyInt(n) == [t |-> "int", v |-> n]

PyNone == [t |-> "none"]

IsStr(x) == x.t = "str"

\* truth value of a Python object: None, 0 and '' are false
Truthy(x) ==
    CASE x.t = "none" -> FALSE
      [] x.t = "int" -> x.v # 0
      [] x.t = "str" -> x.v # ""

\* str(x), as print writes it
Repr(x) ==
    CASE x.t = "none" -> "None"
      [] x.t = "int" -> ToString(x.v)
      [] x.t = "str" -> x.v

\* sysconfig.get_config_var: None for a name the build does not define
getvar(env, name) ==
    IF name \in DOMAIN env.vars THEN env.vars[name] ELSE PyNone

\* sysconfig.get_path: the text of the path
get_path(env, name) == env.paths[name]

\* the interpreter's state while it runs a script: the names bound so far,
\* whether the body of the last `if` runs, and standard output
PyStart ==
    [getvar |-> FALSE, sysconfig |-> FALSE, pyver |-> FALSE, sys |-> FALSE,
     flags |-> <<>>, libs |-> <<>>, hasFlags |-> FALSE, hasLibs |-> FALSE,
     cond |-> TRUE, out |-> "", crashed |-> FALSE]

Crash(st) == [st EXCEPT !.crashed = TRUE]

\* print(x): the text of x and a newline on standard output
PyPrint(st, x) == [st EXCEPT !.out = @ \o Repr(x) \o "\n"]

\* print(getvar(name))
PrintVar(st, env, name) ==
    IF st.getvar THEN PyPrint(st, getvar(env, name)) ELSE Crash(st)

\* print(sysconfig.get_path(name))
PrintPath(st, env, name) ==
    IF st.sysconfig THEN PyPrint(st, PyStr(get_path(env, name))) ELSE Crash(st)

\* <list>.extend(getvar(name).split()) and <list> += getvar(name).split()
ExtendSplit(st, env, list, name) ==
    LET x == getvar(env, name)
    IN  IF st.getvar /\ IsStr(x)
        THEN IF list = "flags" /\ st.hasFlags
             THEN [st EXCEPT !.flags = @ \o split_whitespace(x.v)]
             ELSE IF list = "libs" /\ st.hasLibs
             THEN [st EXCEPT !.libs = @ \o split_whitespace(x.v)]
             ELSE Crash(st)
        ELSE Crash(st)

\* libs.insert(0, '-L' + x + suffix): a TypeError unless x is a string
InsertFront(st, x, suffix) ==
    IF st.hasLibs /\ st.getvar /\ IsStr(x)
    THEN [st EXCEPT !.libs = <<"-L" \o x.v \o suffix>> \o @]
    ELSE Crash(st)

\* if not getvar(name):
IfNot(st, env, name) ==
    IF st.getvar THEN [st EXCEPT !.cond = ~Truthy(getvar(env, name))] ELSE Crash(st)

\* flags = ['-I' + sysconfig.get_path('include'), '-I' + sysconfig.get_path('platinclude')]
IncludeFlags(st, env) ==
    IF st.sysconfig
    THEN [st EXCEPT !.hasFlags = TRUE,
                    !.flags = <<"-I" \o get_path(env, "include"),
                                "-I" \o get_path(env, "platinclude")>>]
    ELSE Crash(st)

\* libs = ['-lpython' + pyver + sys.abiflags]: sys.abiflags is an
\* AttributeError on an interpreter without it (Python 2)
PythonLib(st, env) ==
    IF st.pyver /\ st.sys /\ IsStr(getvar(env, "VERSION")) /\ IsStr(env.abiflags)
    THEN [st EXCEPT !.hasLibs = TRUE,
                    !.libs = <<"-lpython" \o getvar(env, "VERSION").v \o env.abiflags.v>>]
    ELSE Crash(st)

\* print(sys.abiflags)
PrintAbiflags(st, env) ==
    IF st.sys /\ IsStr(env.abiflags) THEN PyPrint(st, env.abiflags) ELSE Crash(st)

\* print(' '.join(<list>))
PrintJoined(st, list) ==
    IF list = "flags" /\ st.hasFlags THEN PyPrint(st, PyStr(join(st.flags, " ")))
    ELSE IF list = "libs" /\ st.hasLibs THEN PyPrint(st, PyStr(join(st.libs, " ")))
    ELSE Crash(st)

\* One statement, unindented.  Every statement any script of the library
\* holds is listed; any other text is not Python the interpreter accepts.
PyStmt(st, line, env) ==
    CASE line = "" -> st
      [] line = "from __future__ import print_function" -> st
      [] line = "import sysconfig" -> [st EXCEPT !.sysconfig = TRUE]
      [] line = "pyver = sysconfig.get_config_var('VERSION')" ->
            IF st.sysconfig THEN [st EXCEPT !.pyver = TRUE] ELSE Crash(st)
      [] line = "getvar = sysconfig.get_config_var" ->
            IF st.sysconfig THEN [st EXCEPT !.getvar = TRUE] ELSE Crash(st)
      [] line = "import sys" -> [st EXCEPT !.sys = TRUE]
      [] line = "print(getvar('prefix'))" -> PrintVar(st, env, "prefix")
      [] line = "print(getvar('exec_prefix'))" -> PrintVar(st, env, "exec_prefix")
      [] line = "print(getvar('EXT_SUFFIX'))" -> PrintVar(st, env, "EXT_SUFFIX")
      [] line = "print(getvar('LIBPL'))" -> PrintVar(st, env, "LIBPL")
      [] line = "print(sys.abiflags)" -> PrintAbiflags(st, env)
      [] line = "print(sysconfig.get_path('include'))" -> PrintPath(st, env, "include")
      [] line = "print(sysconfig.get_path('platinclude'))" ->
            PrintPath(st, env, "platinclude")
      [] line = "flags = ['-I' + sysconfig.get_path('include'), '-I' + sysconfig.get_path('platinclude')]" ->
            IncludeFlags(st, env)
      [] line = "flags.extend(getvar('BASECFLAGS').split())" ->
            ExtendSplit(st, env, "flags", "BASECFLAGS")
      [] line = "flags.extend(getvar('CONFIGURE_CFLAGS').split())" ->
            ExtendSplit(st, env, "flags", "CONFIGURE_CFLAGS")
      [] line = "flags.extend(getvar('CFLAGS').split())" ->
            ExtendSplit(st, env, "flags", "CFLAGS")
      [] line = "print(' '.join(flags))" -> PrintJoined(st, "flags")
      [] line = "libs = ['-lpython' + pyver + sys.abiflags]" -> PythonLib(st, env)
      [] line = "libs.insert(0, '-L' + getvar('exec_prefix') + '/lib')" ->
            InsertFront(st, getvar(env, "exec_prefix"), "/lib")
      [] line = "libs.insert(0, '-L' + getvar('LIBPL'))" ->
            InsertFront(st, getvar(env, "LIBPL"), "")
      [] line = "libs += getvar('LIBS').split()" -> ExtendSplit(st, env, "libs", "LIBS")
      [] line = "libs += getvar('SYSLIBS').split()" ->
            ExtendSplit(st, env, "libs", "SYSLIBS")
      [] line = "libs.extend(getvar('LINKFORSHARED').split())" ->
            ExtendSplit(st, env, "libs", "LINKFORSHARED")
      [] line = "print(' '.join(libs))" -> PrintJoined(st, "libs")
      [] line = "if not getvar('Py_ENABLED_SHARED'):" -> IfNot(st, env, "Py_ENABLED_SHARED")
      [] line = "if not getvar('PYTHONFRAMEWORK'):" -> IfNot(st, env, "PYTHONFRAMEWORK")
      [] OTHER -> Crash(st)

Indented(line) == Len(line) > 0 /\ Ch(line, 1) = "\t"

\* One line of a script: an indented line is the body of the `if` before it
\* and runs when that condition held; an exception ends the run.
PyLine(st, line, env) ==
    IF st.crashed THEN st
    ELSE IF Indented(line)
    THEN IF st.cond THEN PyStmt(st, DropPrefix(line, 1), env) ELSE st
    ELSE PyStmt(st, line, env)

RECURSIVE PyRun(_, _, _)
PyRun(st, ls, env) ==
    IF ls = <<>> THEN st ELSE PyRun(PyLine(st, Head(ls), env), Tail(ls), env)

(***************************************************************************)
(* Results.  n counts the process invocations the call made.               *)
(***************************************************************************)
NoValue == "none"

Ok(v) == [n |-> 0, ok |-> TRUE, val |-> v, err |-> "", why |-> ""]

Err(kind, why) == [n |-> 0, ok |-> FALSE, val |-> NoValue, err |-> kind, why |-> why]

\* other_err
other_err(what) == Err("Other", what)

(***************************************************************************)
(* The process invoker: src/src/cmdr.rs                                    *)
(***************************************************************************)
\* What one run of the program does: it runs to its end ("run"), it writes
\* bytes that are not UTF-8 ("badutf8"), or it dies before it writes
\* anything, with a nonzero status ("killed").
Outcomes == {"run", "badutf8", "killed"}

\* SysCommand::new
SysCommand(program) == [program |-> program]

\* the process has run a script: its exit status and standard output
Exited(st) ==
    [launched |-> TRUE, status |-> IF st.crashed THEN 1 ELSE 0, utf8 |-> TRUE,
     stdout |-> st.out]

\* process::Command::output: the captured standard output and exit status,
\* or the io::Error of a program that cannot be launched
output(c, args, outcome) ==
    IF c.program \notin interp.installed
    THEN [launched |-> FALSE]
    ELSE IF outcome = "killed"
    THEN [launched |-> TRUE, status |-> 1, utf8 |-> TRUE, stdout |-> ""]
    ELSE IF outcome = "badutf8"
    THEN [launched |-> TRUE, status |-> 0, utf8 |-> FALSE, stdout |-> ""]
    ELSE IF args = <<"--version">>
    THEN [launched |-> TRUE, status |-> 0, utf8 |-> TRUE, stdout |-> interp.version]
    ELSE Exited(PyRun(PyStart, Fields(args[2], {"\n"}), interp))

\* a decoding that turns a nonzero exit status into an io::Error
Decode_checks_status(out) ==
    IF ~out.launched THEN [Err("IO", "launch") EXCEPT !.n = 1]
    ELSE IF ~out.utf8 THEN [Err("IO", "utf8") EXCEPT !.n = 1]
    ELSE IF out.status # 0 THEN [Err("IO", "status") EXCEPT !.n = 1]
    ELSE [Ok(out.stdout) EXCEPT !.n = 1]

\* str::from_utf8(&out.stdout) of a launched process, or its io::Error
Decode(out) ==
    IF ~out.launched THEN [Err("IO", "launch") EXCEPT !.n = 1]
    ELSE IF ~out.utf8 THEN [Err("IO", "utf8") EXCEPT !.n = 1]
    ELSE [Ok(out.stdout) EXCEPT !.n = 1]

\* SysCommand::commands: one process; its standard output as text
commands(c, args, outcome) == Decode(output(c, args, outcome))

(***************************************************************************)
(* PythonConfig: src/src/lib.rs                                            *)
(***************************************************************************)
\* Result::and_then / the ? operator: the error of r, or what comes next,
\* with the process invocations of both
Then(r, next) == IF r.ok THEN [next EXCEPT !.n = @ + r.n] ELSE r

\* PythonConfig::with_commander
with_commander(ver, cmdr) == [ver |-> ver, cmdr |-> cmdr]

\* PythonConfig::version
version(v) ==
    IF v = "Three"
    THEN with_commander(v, SysCommand("python3"))
    ELSE with_commander(v, SysCommand("python2"))

\* PythonConfig::new
new == version("Three")

\* is_py3 that accepts every version
is_py3_any(self) == Ok("unit")

\* PythonConfig::is_py3
is_py3(self) == IF self.ver # "Three" THEN Err("Python3Only", "") ELSE Ok("unit")

\* PythonConfig::version_raw
version_raw(self, outcome) == commands(self.cmdr, <<"--version">>, outcome)

(***************************************************************************)
(* semver::Version::parse on the second word of `python --version`         *)
(***************************************************************************)
Digits == {"0", "1", "2", "3", "4", "5", "6", "7", "8", "9"}

DigitVal(c) ==
    CASE c = "0" -> 0 [] c = "1" -> 1 [] c = "2" -> 2 [] c = "3" -> 3
      [] c = "4" -> 4 [] c = "5" -> 5 [] c = "6" -> 6 [] c = "7" -> 7
      [] c = "8" -> 8 [] c = "9" -> 9

\* a numeric identifier: digits, and no leading zero unless it is "0"
IsNumeric(s) ==
    /\ Len(s) > 0
    /\ \A i \in 1..Len(s) : Ch(s, i) \in Digits
    /\ (Len(s) > 1 => Ch(s, 1) # "0")

RECURSIVE NumVal(_)
NumVal(s) ==
    IF s = "" THEN 0
    ELSE 10 * NumVal(SubSeq(s, 1, Len(s) - 1)) + DigitVal(Ch(s, Len(s)))

\* the text before position k, all of s when k = 0
Upto(s, k) == IF k = 0 THEN s ELSE SubSeq(s, 1, k - 1)

\* the text from position k on, nothing when k = 0
From(s, k) == IF k = 0 THEN "" ELSE SubSeq(s, k, Len(s))

\* dot-separated identifiers of a pre-release or build tag, none empty
NoEmpty(ids) == \A i \in 1..Len(ids) : ids[i] # ""

IsTag(s) == NoEmpty(Fields(s, {"."}))

\* the -pre-release and +build that follow the numbers, when present
TagsOk(rest, plus) ==
    /\ (rest # "" /\ Ch(rest, 1) = "-") => IsTag(Upto(DropPrefix(rest, 1), plus - 1))
    /\ plus # 0 => IsTag(DropPrefix(rest, plus))

Numbers(core, tagsOk) ==
    IF Len(core) = 3 /\ (\A i \in 1..3 : IsNumeric(core[i])) /\ tagsOk
    THEN Ok([major |-> NumVal(core[1]), minor |-> NumVal(core[2]),
             patch |-> NumVal(core[3])])
    ELSE Err("Parse", "")

SemverAt(s, k, rest) ==
    Numbers(Fields(Upto(s, k), {"."}), TagsOk(rest, SepAt(rest, {"+"})))

SemverSplit(s, k) == SemverAt(s, k, From(s, k))

\* semver::Version::parse: MAJOR.MINOR.PATCH, then an optional -pre-release
\* and an optional +build
semver_parse(s) == SemverSplit(s, SepAt(s, {"-", "+"}))

\* a closure that falls back to 0.0.0 where the text does not parse
ParseVersion_lenient(witer) ==
    IF Len(witer) >= 2 /\ semver_parse(witer[2]).ok
    THEN semver_parse(witer[2])
    ELSE Ok([major |-> 0, minor |-> 0, patch |-> 0])

\* the closure of semantic_version: the second word of resp, parsed
ParseVersion(witer) ==
    IF Len(witer) < 2
    THEN other_err("expected --version to return a string resembling 'Python X.Y.Z'")
    ELSE IF semver_parse(witer[2]).ok
    THEN semver_parse(witer[2])
    ELSE other_err("unable to parse semver")

AndThenParse(raw) ==
    IF raw.ok THEN Then(raw, ParseVersion(split_whitespace(raw.val))) ELSE raw

\* PythonConfig::semantic_version
semantic_version(self, outcome) == AndThenParse(version_raw(self, outcome))

\* cfg.ver = Version::Two for every major version but 3
Demote_not3(cfg, sv) ==
    Then(sv, Ok(IF sv.ok /\ sv.val.major # 3 THEN [cfg EXCEPT !.ver = "Two"] ELSE cfg))

\* cfg.ver = Version::Two when the major version is 2
Demote(cfg, sv) ==
    Then(sv, Ok(IF sv.ok /\ sv.val.major = 2 THEN [cfg EXCEPT !.ver = "Two"] ELSE cfg))

Probe(cfg, outcome) == Demote(cfg, semantic_version(cfg, outcome))

\* PythonConfig::interpreter.  path.text says whether Path::to_str gives
\* Some; the value of an Ok result is the handle.
interpreter(path, outcome) ==
    IF ~path.text
    THEN other_err("unable to coerce interpreter path to string")
    ELSE Probe([ver |-> "Three", cmdr |-> SysCommand(path.s)], outcome)

\* a script that asks the interpreter for its version before it runs
script_probes(self, ls, outcome) ==
    Then(version_raw(self, outcome),
         commands(self.cmdr, <<"-c", build_script(ls)>>, outcome))

\* PythonConfig::script
script(self, ls, outcome) == commands(self.cmdr, <<"-c", build_script(ls)>>, outcome)

\* PythonConfig::prefix
prefix(self, outcome) == script(self, <<"print(getvar('prefix'))">>, outcome)

\* Result::map(PathBuf::from)
MapPathBuf(r) == IF r.ok THEN [r EXCEPT !.val = PathBuf(@)] ELSE r

\* PythonConfig::prefix_path
prefix_path(self, outcome) == MapPathBuf(prefix(self, outcome))

\* PythonConfig::exec_prefix
exec_prefix(self, outcome) == script(self, <<"print(getvar('exec_prefix'))">>, outcome)

\* PythonConfig::exec_prefix_path
exec_prefix_path(self, outcome) == MapPathBuf(exec_prefix(self, outcome))

\* PythonConfig::includes
includes(self, outcome) ==
    script(self,
           <<"flags = ['-I' + sysconfig.get_path('include'), '-I' + sysconfig.get_path('platinclude')]",
             "print(' '.join(flags))">>,
           outcome)

\* a collect that keeps one of two equal neighbours
Collect_distinct(ls) ==
    IF Len(ls) = 2 /\ ls[1] = ls[2]
    THEN <<PathBuf(ls[1])>>
    ELSE [i \in 1..Len(ls) |-> PathBuf(ls[i])]

Collect(ls) == [i \in 1..Len(ls) |-> PathBuf(ls[i])]

\* resp.lines().map(PathBuf::from).collect()
PathsOfLines(resp) == Collect(lines(resp))

\* Result::map of the closure of include_paths
MapPathsOfLines(r) == IF r.ok THEN [r EXCEPT !.val = PathsOfLines(@)] ELSE r

\* PythonConfig::include_paths
include_paths(self, outcome) ==
    MapPathsOfLines(script(self,
                           <<"print(sysconfig.get_path('include'))",
                             "print(sysconfig.get_path('platinclude'))">>,
                           outcome))

\* PythonConfig::cflags
cflags(self, outcome) ==
    script(self,
           <<"flags = ['-I' + sysconfig.get_path('include'), '-I' + sysconfig.get_path('platinclude')]",
             linux_line("flags.extend(getvar('BASECFLAGS').split())"),
             linux_line("flags.extend(getvar('CONFIGURE_CFLAGS').split())"),
             macos_line("flags.extend(getvar('CFLAGS').split())"),
             "print(' '.join(flags))">>,
           outcome)

\* PythonConfig::libs
libs(self, outcome) ==
    script(self,
           <<"import sys",
             "libs = ['-lpython' + pyver + sys.abiflags]",
             "libs += getvar('LIBS').split()",
             "libs += getvar('SYSLIBS').split()",
             "print(' '.join(libs))">>,
           outcome)

\* ldflags that extends by LIBS after the LINKFORSHARED tokens
ldflags_late_libs(self, outcome) ==
    script(self,
           <<"import sys",
             "libs = ['-lpython' + pyver + sys.abiflags]",
             linux_line("libs.insert(0, '-L' + getvar('exec_prefix') + '/lib')"),
             "libs += getvar('SYSLIBS').split()",
             "if not getvar('Py_ENABLED_SHARED'):",
             tab("libs.insert(0, '-L' + getvar('LIBPL'))"),
             "if not getvar('PYTHONFRAMEWORK'):",
             tab("libs.extend(getvar('LINKFORSHARED').split())"),
             "libs += getvar('LIBS').split()",
             "print(' '.join(libs))">>,
           outcome)

\* PythonConfig::ldflags
ldflags(self, outcome) ==
    script(self,
           <<"import sys",
             "libs = ['-lpython' + pyver + sys.abiflags]",
             linux_line("libs.insert(0, '-L' + getvar('exec_prefix') + '/lib')"),
             "libs += getvar('LIBS').split()",
             "libs += getvar('SYSLIBS').split()",
             "if not getvar('Py_ENABLED_SHARED'):",
             tab("libs.insert(0, '-L' + getvar('LIBPL'))"),
             "if not getvar('PYTHONFRAMEWORK'):",
             tab("libs.extend(getvar('LINKFORSHARED').split())"),
             "print(' '.join(libs))">>,
           outcome)

\* PythonConfig::extension_suffix
extension_suffix(self, outcome) ==
    Then(is_py3(self), script(self, <<"print(getvar('EXT_SUFFIX'))">>, outcome))

\* PythonConfig::abi_flags
abi_flags(self, outcome) ==
    Then(is_py3(self), script(self, <<"import sys", "print(sys.abiflags)">>, outcome))

\* PythonConfig::config_dir
config_dir(self, outcome) ==
    Then(is_py3(self), script(self, <<"print(getvar('LIBPL'))">>, outcome))

\* PythonConfig::config_dir_path
config_dir_path(self, outcome) == MapPathBuf(config_dir(self, outcome))

(***************************************************************************)
(* The machine the library runs on: the target the crate was built for     *)
(* and the interpreter installation its programs resolve to.               *)
(***************************************************************************)
Hosts == {"linux", "macos", "other"}

\* what `python --version` may write to standard output
VersionOutputs ==
    {"Python 3.7.2\n", "Python 2.7.18\n", "", "Python\n", "Python 3.7\n",
     "Python 3.8.0rc1\n", "Python 1.5.2 :: x\n", "Python 3.9.0-rc.1+b\n"}

\* the configuration variables of a build.  Py_ENABLE_SHARED is 1 for a
\* shared-library build; PYTHONFRAMEWORK is '' unless it is a framework build.
ConfigVars(shared, framework, linkforshared) ==
    [prefix |-> PyStr("/u"), exec_prefix |-> PyStr("/e"), VERSION |-> PyStr("3.7"),
     LIBS |-> PyStr("-ldl  -lutil"), SYSLIBS |-> PyStr("-lm"), LIBPL |-> PyStr("/c"),
     LINKFORSHARED |-> PyStr(linkforshared), PYTHONFRAMEWORK |-> PyStr(framework),
     Py_ENABLE_SHARED |-> PyInt(shared), EXT_SUFFIX |-> PyStr(".so"),
     BASECFLAGS |-> PyStr("-fw"), CONFIGURE_CFLAGS |-> PyStr("-g"),
     CFLAGS |-> PyStr("-fw -O2")]

Installation(ver, vs, platinclude, abiflags) ==
    [vars |-> vs,
     paths |-> [platinclude |-> platinclude, include |-> "/i"],
     abiflags |-> abiflags,
     version |-> ver]

\* builds that differ in the variables the flag accessors read
Builds ==
    {Installation("Python 3.7.2\n", ConfigVars(sh, fw, lk), "/i", PyStr("m")) :
        sh \in {0, 1}, fw \in {"", "Python"}, lk \in {"", "-Xl -E"}}
    \cup {Installation("Python 3.7.2\n", ConfigVars(1, "", "-Xl -E"), "/p", PyStr(""))}
    \cup {Installation("Python 2.7.18\n", ConfigVars(0, "", "-Xl -E"), "/p", PyNone)}

\* interpreters that differ in what `--version` writes
Versions ==
    {Installation(v, ConfigVars(0, "", "-Xl -E"), "/i", PyStr("m")) : v \in VersionOutputs}

Programs == {"python3", "python2", "/opt/py"}

Machine(h, i, ps) ==
    [host |-> h,
     interp |-> [vars |-> i.vars, paths |-> i.paths, abiflags |-> i.abiflags,
                 installed |-> ps, version |-> i.version]]

\* every build on every target; every version output; and hosts that cannot
\* launch some of the programs
Machines ==
    {Machine(h, i, Programs) : h \in Hosts, i \in Builds}
    \cup {Machine("linux", i, Programs) : i \in Versions}
    \cup {Machine("macos", Installation("Python 3.7.2\n", ConfigVars(0, "", ""), "/i", PyStr("m")), ps) :
            ps \in {{"python3"}, {"/opt/py"}}}

\* the paths a caller hands to PythonConfig::interpreter: text, or an OsStr
\* that is not UTF-8
Paths == {[s |-> "", text |-> FALSE], [s |-> "/opt/py", text |-> TRUE]}

NoHandle == [ver |-> "None", cmdr |-> SysCommand("")]

NoCall == [outcome |-> "run", op |-> "none", arg |-> NoValue, res |-> Ok(NoValue)]

NoCli ==
    [err |-> "", status |-> 0, stdout |-> "", args |-> <<>>, pc |-> "off",
     argv |-> <<>>, calls |-> <<>>, stderr |-> ""]

Init ==
    /\ \E m \in Machines : host = m.host /\ interp = m.interp
    /\ handle = NoHandle
    /\ last = NoCall
    /\ spawned = 0
    /\ cli = NoCli

(***************************************************************************)
(* The library's operations                                                *)
(***************************************************************************)
\* a constructor returned: the caller holds the handle of an Ok result
Construct(op, outcome, arg, res) ==
    /\ spawned + res.n <= MaxSpawn
    /\ handle' = IF res.ok THEN res.val ELSE handle
    /\ last' = [outcome |-> outcome, op |-> op, arg |-> arg, res |-> res]
    /\ spawned' = spawned + res.n
    /\ UNCHANGED <<host, interp, cli>>

\* an accessor that remembers a failure by demoting the handle to Two
Call_remembers(op, outcome, res) ==
    /\ handle # NoHandle
    /\ spawned + res.n <= MaxSpawn
    /\ last' = [outcome |-> outcome, op |-> op, arg |-> handle, res |-> res]
    /\ spawned' = spawned + res.n
    /\ handle' = IF res.ok THEN handle ELSE [handle EXCEPT !.ver = "Two"]
    /\ UNCHANGED <<host, interp, cli>>

\* an accessor returned: &self is not changed
Call(op, outcome, res) ==
    /\ handle # NoHandle
    /\ spawned + res.n <= MaxSpawn
    /\ last' = [outcome |-> outcome, op |-> op, arg |-> handle, res |-> res]
    /\ spawned' = spawned + res.n
    /\ UNCHANGED <<host, interp, handle, cli>>

New == Construct("new", "run", "Three", Ok(new))

Version == \E v \in {"Three", "Two"} : Construct("version", "run", v, Ok(version(v)))

Interpreter ==
    \E p \in Paths, o \in Outcomes : Construct("interpreter", o, p, interpreter(p, o))

VersionRaw == \E o \in Outcomes : Call("version_raw", o, version_raw(handle, o))

SemanticVersion ==
    \E o \in Outcomes : Call("semantic_version", o, semantic_version(handle, o))

Prefix == \E o \in Outcomes : Call("prefix", o, prefix(handle, o))

PrefixPath == \E o \in Outcomes : Call("prefix_path", o, prefix_path(handle, o))

ExecPrefix == \E o \in Outcomes : Call("exec_prefix", o, exec_prefix(handle, o))

ExecPrefixPath ==
    \E o \in Outcomes : Call("exec_prefix_path", o, exec_prefix_path(handle, o))

Includes == \E o \in Outcomes : Call("includes", o, includes(handle, o))

IncludePaths == \E o \in Outcomes : Call("include_paths", o, include_paths(handle, o))

Cflags == \E o \in Outcomes : Call("cflags", o, cflags(handle, o))

Libs == \E o \in Outcomes : Call("libs", o, libs(handle, o))

Ldflags == \E o \in Outcomes : Call("ldflags", o, ldflags(handle, o))

ExtensionSuffix ==
    \E o \in Outcomes : Call("extension_suffix", o, extension_suffix(handle, o))

AbiFlags == \E o \in Outcomes : Call("abi_flags", o, abi_flags(handle, o))

ConfigDir == \E o \in Outcomes : Call("config_dir", o, config_dir(handle, o))

ConfigDirPath ==
    \E o \in Outcomes : Call("config_dir_path", o, config_dir_path(handle, o))

Next ==
    \/ New
    \/ Version
    \/ Interpreter
    \/ VersionRaw
    \/ SemanticVersion
    \/ Prefix
    \/ PrefixPath
    \/ ExecPrefix
    \/ ExecPrefixPath
    \/ Includes
    \/ IncludePaths
    \/ Cflags
    \/ Libs
    \/ Ldflags
    \/ ExtensionSuffix
    \/ AbiFlags
    \/ ConfigDir
    \/ ConfigDirPath

Spec == Init /\ [][Next]_vars

(***************************************************************************)
(* The python3-config binary: src/src/bin/python3-config.rs                *)
(***************************************************************************)
\* VALID_OPTS_TO_HANDLER, the flags in the order of the table
VALID_OPTS ==
    <<"--prefix", "--exec-prefix", "--includes", "--libs", "--cflags", "--ldflags",
      "--extension-suffix", "--help", "--abiflags", "--configdir">>

\* the HashSet of the valid flags
ValidFlags == {VALID_OPTS[i] : i \in 1..Len(VALID_OPTS)}

\* not_implemented: the handler of --help panics
not_implemented == Err("Panic", "handler not implemented")

\* the handler VALID_OPTS_TO_HANDLER holds for a flag, applied to py
Handler(flag, py, outcome) ==
    CASE flag = "--prefix" -> prefix(py, outcome)
      [] flag = "--exec-prefix" -> exec_prefix(py, outcome)
      [] flag = "--includes" -> includes(py, outcome)
      [] flag = "--libs" -> libs(py, outcome)
      [] flag = "--cflags" -> cflags(py, outcome)
      [] flag = "--ldflags" -> ldflags(py, outcome)
      [] flag = "--extension-suffix" -> extension_suffix(py, outcome)
      [] flag = "--help" -> not_implemented
      [] flag = "--abiflags" -> abi_flags(py, outcome)
      [] flag = "--configdir" -> config_dir(py, outcome)

\* env::args().nth(0)
ProgramName == "python3-config"

\* exit_with_usage: the usage line, on standard error in brackets for macOS
\* and on standard output without them elsewhere; then process::exit(code)
exit_with_usage(c, program, code) ==
    IF host = "macos"
    THEN [c EXCEPT !.pc = "exited", !.status = code,
                   !.stderr = @ \o "Usage: " \o program \o " [" \o join(VALID_OPTS, "|")
                                \o "]\n"]
    ELSE [c EXCEPT !.pc = "exited", !.status = code,
                   !.stdout = @ \o "Usage: " \o program \o " " \o join(VALID_OPTS, "|")
                                \o "\n"]

IsValid(arg) == arg \in ValidFlags

AllValid(argv) == \A i \in 1..Len(argv) : argv[i] \in ValidFlags

Contains(args, x) == \E i \in 1..Len(args) : args[i] = x

\* a main that looks for --help before it looks at the other arguments
Started_help_first(c) ==
    IF Contains(c.args, "--help")
    THEN exit_with_usage(c, ProgramName, 0)
    ELSE IF ~AllValid(c.argv) \/ c.args = <<>>
    THEN exit_with_usage(c, ProgramName, 1)
    ELSE [c EXCEPT !.pc = "loop"]

\* a main that leaves --help to the loop
Started_no_help(c) ==
    IF ~AllValid(c.argv) \/ c.args = <<>>
    THEN exit_with_usage(c, ProgramName, 1)
    ELSE [c EXCEPT !.pc = "loop"]

\* main up to the loop: the usage exits, or the loop over the valid arguments
Started(c) ==
    IF ~AllValid(c.argv) \/ c.args = <<>>
    THEN exit_with_usage(c, ProgramName, 1)
    ELSE IF Contains(c.args, "--help")
    THEN exit_with_usage(c, ProgramName, 0)
    ELSE [c EXCEPT !.pc = "loop"]

\* a loop body that notes the error and goes on to the next argument
Handled_goes_on(c, flag, res) ==
    IF res.ok
    THEN [c EXCEPT !.calls = Append(@, flag), !.stdout = @ \o res.val \o "\n"]
    ELSE [c EXCEPT !.calls = Append(@, flag), !.status = 1,
                   !.err = res.err, !.stderr = @ \o "Error: " \o res.err \o "\n"]

\* writeln!(stdout, "{}", handler(&py)?)?: the Ok value and a newline are
\* written; an Err leaves main, which reports it and exits with status 1
Handled(c, flag, res) ==
    IF res.ok
    THEN [c EXCEPT !.calls = Append(@, flag), !.stdout = @ \o res.val \o "\n"]
    ELSE [c EXCEPT !.calls = Append(@, flag), !.pc = "exited", !.status = 1,
                   !.err = res.err, !.stderr = @ \o "Error: " \o res.err \o "\n"]

\* the arguments a user passes
InputFlags == {"--prefix", "--includes", "--ldflags", "--help", "--abiflags", "--what"}

ArgLists == UNION {[1..n -> InputFlags] : n \in 0..MaxArgs}

\* the machines the binary is run on
CliMachines ==
    {Machine(h, Installation("Python 3.7.2\n", ConfigVars(0, "", "-Xl -E"), "/p", PyStr("m")),
             Programs) : h \in Hosts}
    \cup {Machine("linux", Installation("Python 2.7.18\n", ConfigVars(0, "", ""), "/i", PyNone),
                  Programs),
          Machine("linux", Installation("Python 3.7.2\n", ConfigVars(0, "", ""), "/i", PyStr("m")),
                  {"python2"})}

InitCli ==
    /\ \E m \in CliMachines : host = m.host /\ interp = m.interp
    /\ handle = NoHandle
    /\ last = NoCall
    /\ spawned = 0
    /\ cli = NoCli

\* main, from the arguments to the first handler or to the usage exit
CliMain ==
    \E argv \in ArgLists :
        /\ cli.pc = "off"
        /\ cli' = Started([cli EXCEPT !.argv = argv, !.args = SelectSeq(argv, IsValid)])
        /\ UNCHANGED <<host, interp, handle, last, spawned>>

\* one turn of the loop over the arguments, py being PythonConfig::new()
CliHandle ==
    \E o \in Outcomes :
        /\ cli.pc = "loop"
        /\ Len(cli.calls) < Len(cli.args)
        /\ cli' = Handled(cli, cli.args[Len(cli.calls) + 1],
                          Handler(cli.args[Len(cli.calls) + 1], new, o))
        /\ spawned' = spawned + Handler(cli.args[Len(cli.calls) + 1], new, o).n
        /\ UNCHANGED <<host, interp, handle, last>>

\* the loop is over: Ok(())
CliReturn ==
    /\ cli.pc = "loop"
    /\ Len(cli.calls) = Len(cli.args)
    /\ cli' = [cli EXCEPT !.pc = "exited", !.status = 0]
    /\ UNCHANGED <<host, interp, handle, last, spawned>>

NextCli ==
    \/ CliMain
    \/ CliHandle
    \/ CliReturn

SpecCli == InitCli /\ [][NextCli]_vars

(***************************************************************************)
(* build_script on the line lists a caller may pass                        *)
(***************************************************************************)
\* lines of the accessors' scripts, the platform-conditional ones as the
\* macros leave them on this host
ScriptLines ==
    {"import sys",
     "print(sys.abiflags)",
     linux_line("flags.extend(getvar('BASECFLAGS').split())"),
     macos_line("flags.extend(getvar('CFLAGS').split())")}

LineLists == UNION {[1..n -> ScriptLines] : n \in 0..MaxLines}

InitScript ==
    /\ host \in Hosts
    /\ interp = Machine("linux", Installation("Python 3.7.2\n", ConfigVars(0, "", ""), "/i", PyStr("m")),
                        Programs).interp
    /\ handle = NoHandle
    /\ last = NoCall
    /\ spawned = 0
    /\ cli = NoCli

\* build_script(lines)
BuildScript ==
    \E ls \in LineLists :
        /\ last' = [outcome |-> "run", op |-> "build_script", arg |-> ls,
                    res |-> Ok(build_script(ls))]
        /\ UNCHANGED <<host, interp, handle, spawned, cli>>

NextScript == BuildScript

SpecScript == InitScript /\ [][NextScript]_vars

(***************************************************************************)
(* Properties                                                              *)
(***************************************************************************)
Py3Only == {"extension_suffix", "abi_flags", "config_dir", "config_dir_path"}

\* C1: a Python-3-only accessor called on a handle whose version is Two
\* returns Error::Python3Only and makes no process invocation.
C1_Py3OnlyGate ==
    (last.op \in Py3Only /\ last.arg.ver = "Two")
        => (~last.res.ok /\ last.res.err = "Python3Only" /\ last.res.n = 0)

\* a Python-3-only accessor was rejected on a handle that
\* PythonConfig::interpreter resolved to Two, after its one version query
C1_Witness ==
    /\ last.op = "config_dir_path"
    /\ last.arg = [ver |-> "Two", cmdr |-> SysCommand("/opt/py")]
    /\ last.res.err = "Python3Only"
    /\ spawned = 1

\* ldflags ran its script to the end on the interpreter
LdflagsRan ==
    /\ last.op = "ldflags"
    /\ last.outcome = "run"
    /\ last.res.ok
    /\ last.res.val # ""

HasToken(tokens, t) == \E i \in 1..Len(tokens) : tokens[i] = t

EndsWith(tokens, post) ==
    /\ Len(post) <= Len(tokens)
    /\ SubSeq(tokens, Len(tokens) - Len(post) + 1, Len(tokens)) = post

\* the tokens ldflags returned, and those libs returns on the same interpreter
LdflagsTokens == split_whitespace(last.res.val)

LibsTokens == split_whitespace(libs(last.arg, "run").val)

LinkTokens == split_whitespace(interp.vars.LINKFORSHARED.v)

\* C2: ldflags holds the -L<LIBPL> token exactly when Py_ENABLE_SHARED is
\* false, and ends with the LINKFORSHARED tokens exactly when PYTHONFRAMEWORK
\* is not set.
C2_Claim ==
    LdflagsRan =>
        /\ HasToken(LdflagsTokens, "-L" \o interp.vars.LIBPL.v)
              <=> ~Truthy(interp.vars.Py_ENABLE_SHARED)
        /\ LinkTokens # <<>> =>
              (EndsWith(LdflagsTokens, LinkTokens) <=> ~Truthy(interp.vars.PYTHONFRAMEWORK))

\* the position of the -lpython token in what ldflags returned
PythonLibAt ==
    CHOOSE k \in 0..Len(LdflagsTokens) :
        \/ /\ k > 0
           /\ LdflagsTokens[k] = LibsTokens[1]
           /\ \A j \in 1..(k - 1) : LdflagsTokens[j] # LibsTokens[1]
        \/ /\ k = 0
           /\ ~HasToken(LdflagsTokens, LibsTokens[1])

IsLibDir(t) == Len(t) > 2 /\ SubSeq(t, 1, 2) = "-L"

LdflagsOrder(tokens, mid, k) ==
    /\ k > 0
    /\ \A j \in 1..(k - 1) : IsLibDir(tokens[j])
    /\ Len(tokens) >= k - 1 + Len(mid)
    /\ SubSeq(tokens, k, k - 1 + Len(mid)) = mid
    /\ SubSeq(tokens, k + Len(mid), Len(tokens)) \in {<<>>, LinkTokens}
    /\ (~Truthy(interp.vars.Py_ENABLE_SHARED) /\ ~Truthy(interp.vars.PYTHONFRAMEWORK))
          => /\ tokens[1] = "-L" \o interp.vars.LIBPL.v
             /\ SubSeq(tokens, k + Len(mid), Len(tokens)) = LinkTokens

\* C3: the tokens of ldflags are -L tokens, then exactly the tokens of libs
\* (-lpython<version><abiflags>, LIBS, SYSLIBS), then the LINKFORSHARED
\* tokens or nothing; with Py_ENABLE_SHARED false and PYTHONFRAMEWORK unset
\* they begin with -L<LIBPL> and end with the LINKFORSHARED tokens.
C3_LdflagsOrder == LdflagsRan => LdflagsOrder(LdflagsTokens, LibsTokens, PythonLibAt)

\* ldflags ran on Linux for a static, non-framework build with
\* LINKFORSHARED tokens: both -L tokens and the appended tokens are there
C3_Witness ==
    /\ LdflagsRan
    /\ host = "linux"
    /\ ~Truthy(interp.vars.Py_ENABLE_SHARED)
    /\ ~Truthy(interp.vars.PYTHONFRAMEWORK)
    /\ LinkTokens # <<>>
    /\ PythonLibAt = 3

\* the pieces of includes split on single spaces, each without its first
\* two characters, as paths
StripMarkers(pieces) == [i \in 1..Len(pieces) |-> PathBuf(DropPrefix(pieces[i], 2))]

\* C4: the result of includes, split on single spaces with the -I markers
\* dropped, is the sequence of paths include_paths returns.
C4_Claim ==
    (last.op = "includes" /\ last.outcome = "run" /\ last.res.ok)
        => StripMarkers(split(last.res.val, " ")) = include_paths(last.arg, "run").val

TwoIncludePaths == <<PathBuf(interp.paths.include), PathBuf(interp.paths.platinclude)>>

\* C5 as stated: every Ok result of include_paths is exactly the two paths
\* [include, platinclude], in that order, duplicates kept.
C5_Claim == (last.op = "include_paths" /\ last.res.ok) => last.res.val = TwoIncludePaths

\* C5: when the interpreter ran the script to its end, the Ok result of
\* include_paths is exactly the two paths [include, platinclude], in that
\* order, duplicates kept.
C5_TwoPathsWhenRun ==
    (last.op = "include_paths" /\ last.res.ok /\ last.outcome = "run")
        => last.res.val = TwoIncludePaths

\* include_paths returned two equal paths
C5_Witness ==
    /\ last.op = "include_paths"
    /\ last.outcome = "run"
    /\ last.res.ok
    /\ Len(last.res.val) = 2
    /\ last.res.val[1] = last.res.val[2]

Trimmed(s) == s = "" \/ (Ch(s, 1) \notin Whitespace /\ Ch(s, Len(s)) \notin Whitespace)

\* C6: the text version_raw, prefix and exec_prefix return has no white
\* space at its ends: prefix is the prefix variable, exec_prefix the
\* exec_prefix variable, version_raw "Python 3.7.2" for that interpreter.
C6_Claim ==
    (last.op \in {"version_raw", "prefix", "exec_prefix"} /\ last.outcome = "run"
       /\ last.res.ok)
        => /\ Trimmed(last.res.val)
           /\ last.op = "prefix" => last.res.val = interp.vars.prefix.v
           /\ last.op = "exec_prefix" => last.res.val = interp.vars.exec_prefix.v
           /\ (last.op = "version_raw" /\ interp.version = "Python 3.7.2\n")
                 => last.res.val = "Python 3.7.2"

Semver(major, minor, patch) == [major |-> major, minor |-> minor, patch |-> patch]

\* the second words that are semantic versions, and what they denote
KnownVersions ==
    [w \in {"3.7.2", "2.7.18", "1.5.2", "3.9.0-rc.1+b"} |->
        CASE w = "3.7.2" -> Semver(3, 7, 2)
          [] w = "2.7.18" -> Semver(2, 7, 18)
          [] w = "1.5.2" -> Semver(1, 5, 2)
          [] w = "3.9.0-rc.1+b" -> Semver(3, 9, 0)]

ParseFailure(res) == ~res.ok /\ res.err = "Other" /\ res.val = NoValue

VersionOf(res, words) ==
    /\ interp.version = "Python 3.7.2\n" => (res.ok /\ res.val = Semver(3, 7, 2))
    /\ Len(words) < 2 => ParseFailure(res)
    /\ (Len(words) >= 2 /\ words[2] \in DOMAIN KnownVersions)
          => (res.ok /\ res.val = KnownVersions[words[2]])
    /\ (Len(words) >= 2 /\ words[2] \notin DOMAIN KnownVersions) => ParseFailure(res)

\* C7: semantic_version splits the version text on white space and parses
\* the second word as a semantic version ("Python 3.7.2" gives 3, 7, 2); with
\* fewer than two words, or a second word that is no semantic version, it
\* fails with Error::Other.
C7_SemanticVersion ==
    (last.op = "semantic_version" /\ last.outcome = "run"
       /\ last.arg.cmdr.program \in interp.installed)
        => VersionOf(last.res, split_whitespace(interp.version))

\* semantic_version parsed the output of a Python 3.7.2
C7_Witness ==
    /\ last.op = "semantic_version"
    /\ interp.version = "Python 3.7.2\n"
    /\ last.res.ok
    /\ last.res.val = Semver(3, 7, 2)

TagOf(res, path, sv) ==
    /\ res.ok <=> sv.ok
    /\ ~sv.ok => (res = sv /\ res.val = NoValue)
    /\ sv.ok => /\ res.val.cmdr = SysCommand(path.s)
                /\ res.val.ver \in {"Two", "Three"}
                /\ res.val.ver = "Two" <=> sv.val.major = 2
                /\ handle = res.val

\* C8: the handle interpreter(path) returns has version Two exactly when
\* semantic_version reports major 2, and Three otherwise; a path that is not
\* text fails with no process invocation, a failing semantic_version fails
\* the construction, and neither produces a handle.
C8_InterpreterTag ==
    last.op = "interpreter" =>
        IF last.arg.text
        THEN TagOf(last.res, last.arg,
                   semantic_version([ver |-> "Three", cmdr |-> SysCommand(last.arg.s)],
                                    last.outcome))
        ELSE ParseFailure(last.res) /\ last.res.n = 0

\* interpreter(path) found a Python 2 and returned a handle tagged Two
C8_Witness ==
    /\ last.op = "interpreter"
    /\ last.res.ok
    /\ last.res.val.ver = "Two"
    /\ interp.version = "Python 2.7.18\n"
    /\ spawned = 1

\* C9: a run of recognized flags without --help that comes to its end has
\* invoked the accessor of each flag once, in the order of the arguments, and
\* standard output holds exactly one line for each flag.
C9_Claim ==
    (cli.pc = "exited" /\ cli.status = 0 /\ cli.calls # <<>>)
        => /\ cli.calls = cli.args
           /\ Len(lines(cli.stdout)) = Len(cli.args)

\* C10: the first accessor error ends the run with that error (status 1):
\* the flags after it are not handled, nothing more is written, and what was
\* written to standard output before it stays.
C10_StopsAtError ==
    [][/\ cli.err # "" => cli' = cli
       /\ (cli.err = "" /\ cli'.err # "")
             => /\ cli'.pc = "exited"
                /\ cli'.status = 1
                /\ cli'.stdout = cli.stdout
                /\ cli'.calls = Append(cli.calls, cli.args[Len(cli.calls) + 1])]_vars

\* the second of three flags failed after the first wrote its line
C10_Witness ==
    /\ cli.err # ""
    /\ Len(cli.args) = 3
    /\ Len(cli.calls) = 2
    /\ cli.stdout # ""
    /\ cli.pc = "exited"

\* the usage line with every recognized flag
UsageFlags ==
    "--prefix|--exec-prefix|--includes|--libs|--cflags|--ldflags|--extension-suffix|--help|--abiflags|--configdir"

\* the run wrote the usage line and nothing else: on standard error in
\* brackets on macOS, on standard output elsewhere
UsageWritten ==
    IF host = "macos"
    THEN cli.stdout = "" /\ cli.stderr = "Usage: python3-config [" \o UsageFlags \o "]\n"
    ELSE cli.stderr = "" /\ cli.stdout = "Usage: python3-config " \o UsageFlags \o "\n"

\* C11: a command line with no recognized flag, or with an unrecognized
\* argument (whatever else is on it), writes the usage line with all
\* recognized flags, exits with status 1 and invokes no accessor; the
\* message and the status are the same in all these cases.
C11_UsageOnBadArgs ==
    (cli.pc = "exited" /\ (cli.args = <<>> \/ \E i \in 1..Len(cli.argv) : cli.argv[i] \notin ValidFlags))
        => /\ UsageWritten
           /\ cli.status = 1
           /\ cli.calls = <<>>
           /\ spawned = 0

\* an unrecognized argument next to --help ended the run with the usage line
C11_Witness ==
    /\ cli.pc = "exited"
    /\ cli.argv = <<"--what", "--help">>
    /\ cli.status = 1
    /\ UsageWritten

\* C12: --help never reaches an accessor: its handler, which panics, is
\* called for no argument list, and --help alone writes the usage line of
\* the error path and exits with status 0.
C12_HelpSpecialCased ==
    /\ \A i \in 1..Len(cli.calls) : cli.calls[i] # "--help"
    /\ cli.err # "Panic"
    /\ (cli.pc = "exited" /\ cli.argv = <<"--help">>)
          => (UsageWritten /\ cli.status = 0 /\ cli.calls = <<>> /\ spawned = 0)

\* --help alone ended the run with the usage line and status 0
C12_Witness ==
    /\ cli.pc = "exited"
    /\ cli.argv = <<"--help">>
    /\ cli.status = 0
    /\ cli.stdout \o cli.stderr # ""

TextOps ==
    {"version_raw", "prefix", "exec_prefix", "includes", "cflags", "libs", "ldflags",
     "extension_suffix", "abi_flags", "config_dir"}

PathOps == {"prefix_path", "exec_prefix_path", "config_dir_path"}

AccessorOps == TextOps \cup PathOps \cup {"semantic_version", "include_paths"}

\* what an accessor returns when the process wrote nothing and exited with
\* a nonzero status: the empty output, as the accessor's type holds it;
\* semantic_version finds no version in it, which is not an io::Error
OfEmptyOutput(op, res) ==
    /\ res.err # "IO"
    /\ op \in TextOps => (res.ok /\ res.val = "")
    /\ op \in PathOps => (res.ok /\ res.val = PathBuf(""))
    /\ op = "include_paths" => (res.ok /\ res.val = <<>>)
    /\ op = "semantic_version" => ParseFailure(res)

Propagated(op, outcome, res, launched) ==
    /\ (~launched \/ outcome = "badutf8")
          => (~res.ok /\ res.err = "IO" /\ res.val = NoValue)
    /\ (launched /\ outcome = "killed") => OfEmptyOutput(op, res)
    /\ (launched /\ outcome = "run" /\ interp.abiflags.t = "none"
          /\ op \in {"libs", "ldflags", "abi_flags"})
          => (res.ok /\ res.val = "")

\* C13: an accessor that invoked the interpreter returns an error whenever
\* the program cannot be launched or its output is not UTF-8, never an Ok
\* value; a nonzero exit status by itself is no error: the accessor returns
\* what the standard output gives (Ok with the empty text when the process
\* died or the script failed before it wrote anything).
C13_FailurePropagation ==
    (last.op \in AccessorOps /\ last.res.n > 0)
        => Propagated(last.op, last.outcome, last.res,
                      last.arg.cmdr.program \in interp.installed)

\* libs ran on an interpreter without sys.abiflags: the script failed with
\* a nonzero status and libs returned Ok with the empty output
C13_Witness ==
    /\ last.op = "libs"
    /\ last.outcome = "run"
    /\ interp.abiflags.t = "none"
    /\ last.arg.cmdr.program \in interp.installed
    /\ last.res.ok
    /\ last.res.val = ""

\* C14: new() and version(Three) give program "python3" with tag Three,
\* version(Two) gives "python2" with tag Two; no accessor call, successful
\* or failing, changes the handle; and a call repeated against the same
\* interpreter responses returns the same result.
C14_HandleImmutable ==
    [][/\ last'.op \in AccessorOps => (handle' = handle /\ last'.arg = handle)
       /\ last'.op = "new" => handle' = [ver |-> "Three", cmdr |-> [program |-> "python3"]]
       /\ last'.op = "version"
             => handle' = [ver |-> last'.arg,
                           cmdr |-> [program |-> IF last'.arg = "Three" THEN "python3"
                                                 ELSE "python2"]]
       /\ (last.op \in AccessorOps /\ last'.op = last.op /\ last'.outcome = last.outcome)
             => last'.res = last.res]_vars

\* a handle made by version(Two) is as it was made after two calls that
\* spawned a process, the last of them failing
C14_Witness ==
    /\ handle = [ver |-> "Two", cmdr |-> [program |-> "python2"]]
    /\ last.op = "semantic_version"
    /\ ~last.res.ok
    /\ last.arg = handle
    /\ spawned = 2

\* the prelude of every script
PreludeText ==
    "from __future__ import print_function\nimport sysconfig\npyver = sysconfig.get_config_var('VERSION')\ngetvar = sysconfig.get_config_var\n"

\* the lines of a script after the prelude
AfterPrelude(text) == split(SubSeq(text, Len(PreludeText) + 1, Len(text)), "\n")

\* C15: build_script gives the fixed prelude (sysconfig imported, pyver
\* bound to the VERSION variable, getvar bound to the lookup function) and
\* then the caller's lines, in the caller's order, joined by newline: none
\* dropped, reordered or altered; equal line lists give equal scripts.
C15_BuildScript ==
    last.op = "build_script" =>
        /\ Len(last.res.val) >= Len(PreludeText)
        /\ SubSeq(last.res.val, 1, Len(PreludeText)) = PreludeText
        /\ AfterPrelude(last.res.val) = IF Len(last.arg) = 0 THEN <<"">> ELSE last.arg
        /\ build_script(last.arg) = last.res.val

\* build_script was given three lines, the second empty
C15_Witness ==
    /\ last.op = "build_script"
    /\ Len(last.arg) = 3
    /\ last.arg[1] = "import sys"
    /\ last.arg[2] = ""
    /\ last.arg[3] = "print(sys.abiflags)"
    /\ last.res.val = PreludeText \o "import sys\n\nprint(sys.abiflags)"

\* the tokens the cflags script joins on this host
CflagsTokens ==
    <<"-I" \o interp.paths.include, "-I" \o interp.paths.platinclude>>
        \o (IF host = "linux"
            THEN split_whitespace(interp.vars.BASECFLAGS.v)
                     \o split_whitespace(interp.vars.CONFIGURE_CFLAGS.v)
            ELSE IF host = "macos"
            THEN split_whitespace(interp.vars.CFLAGS.v)
            ELSE <<>>)

\* C16: a line tagged for a target is its text on a matching host and the
\* empty line on any other, so Linux lines and macOS lines are never both
\* active; cflags is one line of space-joined tokens: the two -I tokens,
\* then BASECFLAGS and CONFIGURE_CFLAGS on Linux only, CFLAGS on macOS only,
\* nothing more elsewhere.
C16_PlatformLines ==
    /\ linux_line("x") = IF host = "linux" THEN "x" ELSE ""
    /\ macos_line("x") = IF host = "macos" THEN "x" ELSE ""
    /\ ~(linux_line("x") # "" /\ macos_line("x") # "")
    /\ (last.op = "cflags" /\ last.outcome = "run" /\ last.res.ok)
          => lines(last.res.val) = <<join(CflagsTokens, " ")>>

\* cflags ran on macOS: the two -I tokens, then the CFLAGS tokens
C16_Witness ==
    /\ last.op = "cflags"
    /\ host = "macos"
    /\ last.res.ok
    /\ lines(last.res.val) = <<"-I/i -I/p -fw -O2">>

\* the process invocations of one operation: one for interpreter(path) with
\* a path that is text, one for an accessor the version gate lets through,
\* none for new, version and a rejected accessor
Spawns(call) ==
    IF call.op = "interpreter" THEN (IF call.arg.text THEN 1 ELSE 0)
    ELSE IF call.op \in {"new", "version"} THEN 0
    ELSE IF call.op \in Py3Only /\ call.arg.ver # "Three" THEN 0
    ELSE 1

\* C17: every operation adds to the number of interpreter processes
\* invoked exactly one for interpreter(path) past the path-text check and
\* for an accessor call the version gate did not reject (semantic_version,
\* libs and ldflags on a Two handle included), and none for construction by
\* version selection or a rejected call.
C17_SpawnCount == [][spawned' = spawned + Spawns(last')]_vars

\* ldflags on a handle that interpreter(path) tagged Two: one process for
\* the construction, one for the call
C17_Witness ==
    /\ last.op = "ldflags"
    /\ last.arg = [ver |-> "Two", cmdr |-> [program |-> "/opt/py"]]
    /\ last.res.n = 1
    /\ spawned = 2

====
